---- MODULE Spec2Model ----
(***************************************************************************)
(* Model of src/src/lib/mongoosePagination.ts: the option-to-pipeline      *)
(* translation (createDateFilter, processFilters, createGlobalSearchQuery) *)
(* and the orchestrator mongoosePagination with its single storage         *)
(* round-trip (Model.aggregate).                                           *)
(*                                                                         *)
(* Representation of JavaScript values (the first component is the tag,    *)
(* so that two values of different type never compare their payloads):     *)
(*   <<"undefined">>          undefined                                    *)
(*   <<"str", cs>>            a string, cs its sequence of characters      *)
(*   <<"bool", b>>            a boolean                                    *)
(*   <<"num", n>>             a finite integral number                     *)
(*   <<"nan">>                NaN                                          *)
(*   <<"inf", s>>             +Infinity (s = 1) or -Infinity (s = -1)      *)
(*   <<"date", ms>>           a Date, ms counted from 2024-01-01T00:00Z    *)
(*   <<"invalid-date">>       a Date whose time value is NaN               *)
(*   <<"obj", f>>             an object given where undefined is possible  *)
(* A plain object (a filter, a document) is a function from its keys.      *)
(***************************************************************************)
EXTENDS Integers, Sequences, FiniteSets, TLC

VARIABLES
    pc,                  \* position of the call
    options,             \* the PaginationOptions the call was given
    dateFilter,          \* value of createDateFilter(...) (line 193)
    fieldCondition,      \* value of the ternary of lines 194-196
    skip,                \* line 188
    combinedFilter,      \* lines 191-197
    aggregationPipeline, \* lines 200-215
    aggregateCalls,      \* number of Model.aggregate requests issued
    received,            \* the pipeline the storage engine was handed
    outcome,             \* what the promise settled with
    collection           \* the documents of the collection, in natural order

vars == <<pc, options, dateFilter, fieldCondition, skip, combinedFilter,
          aggregationPipeline, aggregateCalls, received, outcome, collection>>

----------------------------------------------------------------------------
(* Bounds of the model.                                                    *)

MaxValueLen == 2
MaxPage == 3
MaxMax == 2

----------------------------------------------------------------------------
(* JavaScript values.                                                      *)

Undefined == <<"undefined">>
NaN == <<"nan">>
Str(cs) == <<"str", cs>>
Bool(b) == <<"bool", b>>
Num(n) == <<"num", n>>
Inf(s) == <<"inf", s>>
Obj(f) == <<"obj", f>>

Tag(v) == v[1]
Val(v) == v[2]

EmptyObject == [k \in {} |-> Undefined]

\* { ...a, ...b }: the keys of both, b's value where both have the key.
Spread(a, b) ==
    [k \in DOMAIN a \cup DOMAIN b |-> IF k \in DOMAIN b THEN b[k] ELSE a[k]]

\* ToBoolean of a string or undefined (the `!startDate`, `value &&` tests).
Truthy(v) ==
    CASE Tag(v) = "undefined" -> FALSE
      [] Tag(v) = "str" -> Val(v) # <<>>
      [] Tag(v) = "bool" -> Val(v)
      [] Tag(v) = "num" -> Val(v) # 0
      [] Tag(v) = "nan" -> FALSE
      [] OTHER -> TRUE

----------------------------------------------------------------------------
(* Strings and Number(value).                                              *)

Digits == {"0", "1", "2", "3", "4", "5", "6", "7", "8", "9"}
WhiteSpace == {" "}

DigitValue(c) ==
    CASE c = "0" -> 0 [] c = "1" -> 1 [] c = "2" -> 2 [] c = "3" -> 3
      [] c = "4" -> 4 [] c = "5" -> 5 [] c = "6" -> 6 [] c = "7" -> 7
      [] c = "8" -> 8 [] c = "9" -> 9

RECURSIVE TrimStart(_)
TrimStart(cs) ==
    IF cs # <<>> /\ Head(cs) \in WhiteSpace THEN TrimStart(Tail(cs)) ELSE cs

RECURSIVE TrimEnd(_)
TrimEnd(cs) ==
    IF cs # <<>> /\ cs[Len(cs)] \in WhiteSpace
    THEN TrimEnd(SubSeq(cs, 1, Len(cs) - 1))
    ELSE cs

Trim(cs) == TrimEnd(TrimStart(cs))

RECURSIVE DecimalValue(_)
DecimalValue(cs) ==
    IF cs = <<>> THEN 0
    ELSE 10 * DecimalValue(SubSeq(cs, 1, Len(cs) - 1)) + DigitValue(cs[Len(cs)])

IsDigits(cs) == cs # <<>> /\ \A i \in 1..Len(cs) : cs[i] \in Digits

\* Number(value) for a string value: white space is trimmed, the empty
\* string is 0, an optionally signed run of decimal digits is its value,
\* anything else is NaN.  (Fractions, exponents, radix prefixes and
\* "Infinity" need characters outside the model's alphabet.)
StringToNumber(cs) ==
    LET t == Trim(cs) IN
    IF t = <<>> THEN Num(0)
    ELSE IF IsDigits(t) THEN Num(DecimalValue(t))
    ELSE IF Head(t) = "-" /\ IsDigits(Tail(t)) THEN Num(0 - DecimalValue(Tail(t)))
    ELSE IF Head(t) = "+" /\ IsDigits(Tail(t)) THEN Num(DecimalValue(Tail(t)))
    ELSE NaN

IsNaN(v) == Tag(v) = "nan"

TrueLiteral == <<"t", "r", "u", "e">>
FalseLiteral == <<"f", "a", "l", "s", "e">>

----------------------------------------------------------------------------
(* Filter conditions.  A filter is a function from keys to conditions:     *)
(*   <<"eq", v>>              { key: v }                                   *)
(*   <<"regex", cs, opts>>    { key: { $regex: cs, $options: opts } }      *)
(*   <<"range", r>>           { key: r }, r from operator names to Dates   *)
(*   <<"or", S>>              { $or: [...] }, S the set of <<key, cond>>   *)

Eq(v) == <<"eq", v>>
Regex(cs, opts) == <<"regex", cs, opts>>
Range(r) == <<"range", r>>
Or(S) == <<"or", S>>

\* The entries of `filters` the forEach of line 119 does not skip.
DefinedEntries(f) == {k \in DOMAIN f : f[k] # Undefined}

\* Lines 122-128: the condition of one entry.
ProcessValue(value) ==
    IF Val(value) = TrueLiteral \/ Val(value) = FalseLiteral
    THEN Eq(Bool(Val(value) = TrueLiteral))
    ELSE IF ~IsNaN(StringToNumber(Val(value)))
    THEN Eq(StringToNumber(Val(value)))
    ELSE Regex(Val(value), "i")

processFilters(filters) ==
    IF Tag(filters) = "undefined" THEN EmptyObject
    ELSE [k \in DefinedEntries(Val(filters)) |-> ProcessValue(Val(filters)[k])]

\* Line 144: value && typeof value === "string".
GlobalQualifies(value) == Truthy(value) /\ Tag(value) = "str"

createGlobalSearchQuery(filters) ==
    IF Tag(filters) = "undefined" THEN EmptyObject
    ELSE LET f == Val(filters)
             globalConditions ==
                 {<<k, Regex(Val(f[k]), "i")>> : k \in {j \in DOMAIN f : GlobalQualifies(f[j])}}
         IN IF globalConditions # {}
            THEN [k \in {"$or"} |-> Or(globalConditions)]
            ELSE EmptyObject

FieldConditionBothModes(filters, globalSearch) ==
    IF globalSearch
    THEN Spread(processFilters(filters), createGlobalSearchQuery(filters))
    ELSE processFilters(filters)

\* Lines 194-196: the mode picks one builder, never both.
FieldCondition(filters, globalSearch) ==
    IF globalSearch THEN createGlobalSearchQuery(filters) ELSE processFilters(filters)

----------------------------------------------------------------------------
(* Dates.  Time values are milliseconds counted from 2024-01-01T00:00:00Z, *)
(* and the date strings of the model lie in January 2024.                  *)

DayMs == 86400000

Date(ms) == <<"date", ms>>
InvalidDate == <<"invalid-date">>

IsoDateShape(cs) ==
    /\ Len(cs) = 10
    /\ cs[5] = "-" /\ cs[8] = "-"
    /\ \A i \in {1, 2, 3, 4, 6, 7, 9, 10} : cs[i] \in Digits

\* new Date(string) for a date-only ISO string of January 2024 (midnight
\* UTC of that day); a string of another shape gives an Invalid Date.
NewDate(str) ==
    LET cs == Val(str) IN
    IF /\ IsoDateShape(cs)
       /\ DecimalValue(SubSeq(cs, 1, 4)) = 2024
       /\ DecimalValue(SubSeq(cs, 6, 7)) = 1
       /\ DecimalValue(SubSeq(cs, 9, 10)) \in 1..31
    THEN Date((DecimalValue(SubSeq(cs, 9, 10)) - 1) * DayMs)
    ELSE InvalidDate

\* new Date(d.getTime() + ms): NaN + ms is NaN.
AddMs(d, ms) == IF Tag(d) = "date" THEN Date(Val(d) + ms) ELSE InvalidDate

\* Lines 83-85.
DateOperators(searchBetweenDates) ==
    IF searchBetweenDates
    THEN [start |-> "$gt", end |-> "$lt"]
    ELSE [start |-> "$gte", end |-> "$lte"]

AdjustedEndDateUnshifted(end, searchBetweenDates) == end

\* Lines 89-91.
AdjustedEndDate(end, searchBetweenDates) ==
    IF searchBetweenDates THEN end ELSE AddMs(end, DayMs)

\* { ...dateFilter.createdAt, [op]: value } assigned to dateFilter.createdAt.
WithBound(filter, op, value) ==
    LET old == IF "createdAt" \in DOMAIN filter THEN Val(filter.createdAt) ELSE EmptyObject
    IN [k \in {"createdAt"} |-> Range(Spread(old, [o \in {op} |-> value]))]

createDateFilter(startDate, endDate, searchBetweenDates) ==
    IF ~Truthy(startDate) /\ ~Truthy(endDate) THEN EmptyObject
    ELSE
        LET start == IF Truthy(startDate) THEN NewDate(startDate) ELSE Undefined
            end == IF Truthy(endDate) THEN NewDate(endDate) ELSE Undefined
            operators == DateOperators(searchBetweenDates)
            afterEnd ==
                IF end # Undefined
                THEN WithBound(EmptyObject, operators.end,
                               AdjustedEndDate(end, searchBetweenDates))
                ELSE EmptyObject
        IN IF start # Undefined
           THEN WithBound(afterEnd, operators.start, start)
           ELSE afterEnd

----------------------------------------------------------------------------
(* The storage engine's matching of a document against a filter.           *)

LowerCase(c) ==
    CASE c = "A" -> "a" [] c = "C" -> "c" [] c = "M" -> "m" [] c = "R" -> "r"
      [] c = "S" -> "s" [] c = "T" -> "t" [] OTHER -> c

Lower(cs) == [i \in 1..Len(cs) |-> LowerCase(cs[i])]

\* A pattern without metacharacters, option "i": it occurs in the text,
\* letter case ignored.
Contains(text, pattern) ==
    \E i \in 1..(Len(text) + 1) :
        /\ i + Len(pattern) - 1 <= Len(text)
        /\ SubSeq(Lower(text), i, i + Len(pattern) - 1) = Lower(pattern)

\* One comparison operator of a range; an Invalid Date compares false.
Compare(op, v, bound) ==
    /\ Tag(v) = "date" /\ Tag(bound) = "date"
    /\ CASE op = "$gte" -> Val(v) >= Val(bound)
         [] op = "$lte" -> Val(v) <= Val(bound)
         [] op = "$gt" -> Val(v) > Val(bound)
         [] op = "$lt" -> Val(v) < Val(bound)

FieldMatches(doc, key, cond) ==
    /\ key \in DOMAIN doc
    /\ CASE Tag(cond) = "eq" -> doc[key] = Val(cond)
         [] Tag(cond) = "regex" ->
                Tag(doc[key]) = "str" /\ Contains(Val(doc[key]), Val(cond))
         [] Tag(cond) = "range" ->
                \A op \in DOMAIN Val(cond) : Compare(op, doc[key], Val(cond)[op])

Matches(doc, filter) ==
    \A key \in DOMAIN filter :
        IF Tag(filter[key]) = "or"
        THEN \E d \in Val(filter[key]) : FieldMatches(doc, d[1], d[2])
        ELSE FieldMatches(doc, key, filter[key])

----------------------------------------------------------------------------
(* JavaScript arithmetic on numbers that may be NaN.                       *)

IsNum(v) == Tag(v) = "num"

JsAdd(a, b) == IF IsNum(a) /\ IsNum(b) THEN Num(Val(a) + Val(b)) ELSE NaN
JsSub(a, b) == IF IsNum(a) /\ IsNum(b) THEN Num(Val(a) - Val(b)) ELSE NaN
JsMul(a, b) == IF IsNum(a) /\ IsNum(b) THEN Num(Val(a) * Val(b)) ELSE NaN
JsGt(a, b) == IsNum(a) /\ IsNum(b) /\ Val(a) > Val(b)

\* Ceiling and floor of the quotient n / d of two integers, d > 0.
CeilQuot(n, d) == 0 - ((0 - n) \div d)
FloorQuot(n, d) == n \div d

\* Math.ceil(a / b): x / 0 is an infinity, 0 / 0 and NaN operands are NaN.
MathCeilDiv(a, b) ==
    IF ~(IsNum(a) /\ IsNum(b)) THEN NaN
    ELSE IF Val(b) = 0
         THEN IF Val(a) = 0 THEN NaN ELSE Inf(IF Val(a) > 0 THEN 1 ELSE -1)
    ELSE IF Val(b) > 0 THEN Num(CeilQuot(Val(a), Val(b)))
    ELSE Num(CeilQuot(0 - Val(a), 0 - Val(b)))

MathFloorDiv(a, b) ==
    IF IsNum(a) /\ IsNum(b) /\ Val(b) > 0 THEN Num(FloorQuot(Val(a), Val(b))) ELSE NaN

----------------------------------------------------------------------------
(* Pipeline stages and the storage engine's evaluation of a pipeline.      *)
(*   <<"$match", filter>>  <<"$sort", field, direction>>  <<"$skip", n>>   *)
(*   <<"$limit", n>>  <<"$project", fields>>  <<"$count", name>>           *)
(*   <<"$facet", [metadata |-> stages, data |-> stages]>>                  *)
(*   <<"$unwind", path, preserveNullAndEmptyArrays>>                       *)

Min(a, b) == IF a < b THEN a ELSE b

\* Documents by descending createdAt; equal keys keep their order.
RECURSIVE SortDescending(_)
SortDescending(docs) ==
    IF docs = <<>> THEN <<>>
    ELSE LET i == CHOOSE i \in 1..Len(docs) :
                    \A j \in 1..Len(docs) :
                        \/ Val(docs[i].createdAt) > Val(docs[j].createdAt)
                        \/ Val(docs[i].createdAt) = Val(docs[j].createdAt) /\ i <= j
         IN <<docs[i]>> \o SortDescending(SubSeq(docs, 1, i - 1) \o SubSeq(docs, i + 1, Len(docs)))

\* $project with inclusions: the named fields a document has, and _id.
Project(doc, fields) == [k \in (fields \cup {"_id"}) \cap DOMAIN doc |-> doc[k]]

\* The arguments the engine refuses: a $skip that is not a non-negative
\* integer, a $limit that is not a positive integer.
RECURSIVE StageValid(_)
StageValid(stage) ==
    CASE Tag(stage) = "$skip" -> IsNum(Val(stage)) /\ Val(Val(stage)) >= 0
      [] Tag(stage) = "$limit" -> IsNum(Val(stage)) /\ Val(Val(stage)) > 0
      [] Tag(stage) = "$facet" ->
            \A name \in DOMAIN Val(stage) :
                \A i \in 1..Len(Val(stage)[name]) : StageValid(Val(stage)[name][i])
      [] OTHER -> TRUE

PipelineValid(stages) == \A i \in 1..Len(stages) : StageValid(stages[i])

RECURSIVE RunStages(_, _)
RunStage(stage, docs) ==
    CASE Tag(stage) = "$match" ->
            LET Test(d) == Matches(d, Val(stage)) IN SelectSeq(docs, Test)
      [] Tag(stage) = "$sort" -> SortDescending(docs)
      [] Tag(stage) = "$skip" -> SubSeq(docs, Val(Val(stage)) + 1, Len(docs))
      [] Tag(stage) = "$limit" -> SubSeq(docs, 1, Min(Val(Val(stage)), Len(docs)))
      [] Tag(stage) = "$project" ->
            [i \in 1..Len(docs) |->
                Project(docs[i], {k \in DOMAIN Val(stage) : Val(stage)[k]})]
      [] Tag(stage) = "$count" ->
            IF docs = <<>> THEN <<>> ELSE <<[total |-> Num(Len(docs))]>>
      [] Tag(stage) = "$facet" ->
            <<[name \in DOMAIN Val(stage) |-> RunStages(Val(stage)[name], docs)]>>
      [] Tag(stage) = "$unwind" ->
            \* path "$metadata" of the single facet document
            IF docs[1].metadata = <<>>
            THEN <<[k \in DOMAIN docs[1] \ {"metadata"} |-> docs[1][k]]>>
            ELSE [i \in 1..Len(docs[1].metadata) |->
                     [docs[1] EXCEPT !.metadata = docs[1].metadata[i]]]

RunStages(stages, docs) ==
    IF stages = <<>> THEN docs
    ELSE RunStages(Tail(stages), RunStage(Head(stages), docs))

\* Model.aggregate(pipeline) on the collection.
Aggregate(docs, pipeline) == RunStages(pipeline, docs)

----------------------------------------------------------------------------
(* mongoosePagination: the pieces of lines 173-234.                        *)

DefaultMax == 10
DefaultPage == 1

\* A destructuring default: it applies to undefined only.
Default(v, d) == IF Tag(v) = "undefined" THEN d ELSE v

\* Line 188.
Skip(page, max) == JsMul(JsSub(page, Num(1)), max)

\* Lines 191-197: three object spreads, the later ones winning a shared key.
CombinedFilter(filter, dateCondition, fieldCond) ==
    Spread(Spread(filter, dateCondition), fieldCond)

\* Lines 206-211.
DataStages(sort, skipped, max, extract) ==
    (IF sort THEN << <<"$sort", "createdAt", -1>> >> ELSE <<>>)
    \o << <<"$skip", skipped>>, <<"$limit", max>> >>
    \o (IF Cardinality(DOMAIN extract) > 0 THEN << <<"$project", extract>> >> ELSE <<>>)

\* Line 205: the count runs on the facet's input, whatever page is asked.
CountStages == << <<"$count", "total">> >>

AggregationPipelineCountAfterPaging(filter, pipeline, sort, skipped, max, extract) ==
    << <<"$match", filter>> >>
    \o pipeline
    \o << <<"$facet", [metadata |-> << <<"$skip", skipped>>, <<"$limit", max>> >>
                                    \o CountStages,
                       data |-> DataStages(sort, skipped, max, extract)]>>,
          <<"$unwind", "$metadata", TRUE>> >>

\* Lines 200-215.
AggregationPipeline(filter, pipeline, sort, skipped, max, extract) ==
    << <<"$match", filter>> >>
    \o pipeline
    \o << <<"$facet", [metadata |-> CountStages,
                       data |-> DataStages(sort, skipped, max, extract)]>>,
          <<"$unwind", "$metadata", TRUE>> >>

\* Line 222: result?.metadata?.total ?? 0, result the first returned document.
Total(returned) ==
    IF returned = <<>> THEN Num(0)
    ELSE IF "metadata" \notin DOMAIN returned[1] THEN Num(0)
    ELSE returned[1].metadata.total

\* Line 233: result?.data ?? [].
Data(returned) == IF returned = <<>> THEN <<>> ELSE returned[1].data

HasNextInclusive(total, skipped, max) ==
    JsGt(total, JsAdd(skipped, max)) \/ total = JsAdd(skipped, max)

\* Line 229.
HasNext(total, skipped, max) == JsGt(total, JsAdd(skipped, max))

\* Line 230.
HasPrevious(page) == JsGt(page, Num(1))

TotalPagesRoundedDown(total, max) == MathFloorDiv(total, max)

\* Line 231.
TotalPages(total, max) == MathCeilDiv(total, max)

\* Lines 224-234.
PageResult(returned, page, max, skipped) ==
    LET total == Total(returned) IN
    [metadata |-> [total |-> total,
                   page |-> page,
                   max |-> max,
                   next |-> HasNext(total, skipped, max),
                   previous |-> HasPrevious(page),
                   totalPages |-> TotalPages(total, max)],
     data |-> Data(returned)]

\* The options after destructuring with their defaults (lines 173-186).
Destructured(o) ==
    [max |-> Default(o.max, Num(DefaultMax)),
     page |-> Default(o.page, Num(DefaultPage)),
     sort |-> Val(Default(o.sort, Bool(TRUE))),
     filter |-> Val(Default(o.filter, Obj(EmptyObject))),
     pipeline |-> Val(Default(o.pipeline, Obj(<<>>))),
     extract |-> Val(Default(o.extract, Obj(EmptyObject))),
     startDate |-> o.startDate,
     endDate |-> o.endDate,
     searchBetweenDates |-> Val(Default(o.searchBetweenDates, Bool(FALSE))),
     filters |-> o.filters,
     globalSearch |-> Val(Default(o.globalSearch, Bool(FALSE)))]

----------------------------------------------------------------------------
(* The collection and the options a caller may give.                       *)

Chars(n, alphabet) == UNION {[1..k -> alphabet] : k \in 0..n}

Meeting == <<"M", "e", "e", "t", "i", "n", "g">>
MeetingLower == <<"m", "e", "e", "t", "i", "n", "g">>
Report == <<"R", "e", "p", "o", "r", "t">>
Shopping == <<"S", "h", "o", "p", "p", "i", "n", "g">>
Task4 == <<"T", "a", "s", "k", " ", "4">>
High == <<"h", "i", "g", "h">>
Medium == <<"m", "e", "d", "i", "u", "m">>
Low == <<"l", "o", "w">>
Nonexistent == <<"N", "o", "n", "e">>
Jan15 == <<"2", "0", "2", "4", "-", "0", "1", "-", "1", "5">>
Jan20 == <<"2", "0", "2", "4", "-", "0", "1", "-", "2", "0">>
NotADate == <<"I", "n", "v", "a", "l", "i", "d", "D", "a", "t", "e">>

Task(id, title, completed, priority, createdAt) ==
    [_id |-> Num(id), title |-> Str(title), completed |-> Bool(completed),
     priority |-> Str(priority), createdAt |-> Date(createdAt)]

\* Tasks in the shape of the test suite's sampleTasks, created on
\* 14 Jan 12:00, 16 Jan 00:00, 20 Jan 12:00 and 21 Jan 00:00.
SampleTasks ==
    << Task(1, Report, FALSE, High, 13 * DayMs + DayMs \div 2),
       Task(2, Meeting, TRUE, Medium, 15 * DayMs),
       Task(3, Shopping, FALSE, Low, 19 * DayMs + DayMs \div 2),
       Task(4, Task4, TRUE, High, 20 * DayMs) >>

Object1(k, v) == [x \in {k} |-> v]

Numbers(n) == {Undefined, NaN} \cup {Num(i) : i \in -1..n}

BaseFilters ==
    { Undefined,
      Obj(Object1("title", Eq(Str(Nonexistent)))),
      Obj(Object1("createdAt", Range(Object1("$gte", Date(17 * DayMs))))),
      Obj(Object1("$or", Or({<<"completed", Eq(Bool(TRUE))>>}))) }

ExtraPipelines ==
    { Undefined,
      Obj(<< <<"$match", Object1("completed", Eq(Bool(FALSE)))>> >>),
      Obj(<< <<"$limit", Num(1)>> >>) }

Extracts == { Undefined, Obj([k \in {"title", "completed"} |-> TRUE]) }

FieldFilters ==
    { Undefined,
      Obj(Object1("title", Str(MeetingLower))),
      Obj([k \in {"priority", "completed"} |->
              IF k = "priority" THEN Str(High) ELSE Str(FalseLiteral)]),
      Obj(Object1("createdAt", Str(<<"5">>))) }

Flags == {Undefined, Bool(TRUE)}

RequestOptions ==
    [max : Numbers(MaxMax),
     page : Numbers(MaxPage),
     sort : {Undefined, Bool(FALSE)},
     filter : BaseFilters,
     pipeline : ExtraPipelines,
     extract : Extracts,
     startDate : {Undefined, Str(Jan15)},
     endDate : {Undefined, Str(Jan20)},
     searchBetweenDates : Flags,
     filters : FieldFilters,
     globalSearch : Flags]

----------------------------------------------------------------------------
(* The call as a state machine.                                            *)

NoValue == <<"none">>

Init ==
    /\ pc = "idle"
    /\ options = NoValue
    /\ dateFilter = NoValue
    /\ fieldCondition = NoValue
    /\ skip = NoValue
    /\ combinedFilter = NoValue
    /\ aggregationPipeline = NoValue
    /\ aggregateCalls = 0
    /\ received = NoValue
    /\ outcome = NoValue
    /\ collection = SampleTasks

\* Lines 173-220 up to the await: the options are destructured, skip, the
\* combined filter and the pipeline are built and Model.aggregate is called.
mongoosePagination(o) ==
    LET d == Destructured(o)
        sk == Skip(d.page, d.max)
        df == createDateFilter(d.startDate, d.endDate, d.searchBetweenDates)
        fc == FieldCondition(d.filters, d.globalSearch)
        cf == CombinedFilter(d.filter, df, fc)
        pl == AggregationPipeline(cf, d.pipeline, d.sort, sk, d.max, d.extract)
    IN /\ pc = "idle"
       /\ options' = d
       /\ skip' = sk
       /\ dateFilter' = df
       /\ fieldCondition' = fc
       /\ combinedFilter' = cf
       /\ aggregationPipeline' = pl
       /\ aggregateCalls' = aggregateCalls + 1
       /\ received' = pl
       /\ outcome' = <<"pending">>
       /\ pc' = "awaiting"
       /\ UNCHANGED collection

AggregateRejectsThenRetries ==
    /\ pc = "awaiting"
    /\ aggregateCalls < 3
    /\ aggregateCalls' = aggregateCalls + 1
    /\ UNCHANGED <<pc, options, dateFilter, fieldCondition, skip, combinedFilter,
                   aggregationPipeline, received, outcome, collection>>

\* The await of line 217 resumes with the engine's answer; lines 222-234
\* assemble the result.  The engine answers only a pipeline it accepts.
AggregateResolves ==
    /\ pc = "awaiting"
    /\ PipelineValid(received)
    /\ outcome' = <<"fulfilled",
                    PageResult(Aggregate(collection, received),
                               options.page, options.max, skip)>>
    /\ pc' = "done"
    /\ UNCHANGED <<options, dateFilter, fieldCondition, skip, combinedFilter,
                   aggregationPipeline, aggregateCalls, received, collection>>

\* The await throws: the storage error leaves the function as it came.
AggregateRejects ==
    /\ pc = "awaiting"
    /\ outcome' = <<"rejected", "MongoServerError">>
    /\ pc' = "failed"
    /\ UNCHANGED <<options, dateFilter, fieldCondition, skip, combinedFilter,
                   aggregationPipeline, aggregateCalls, received, collection>>

\* A caller passes some options.
Call == pc = "idle" /\ \E o \in RequestOptions : mongoosePagination(o)

Next ==
    \/ Call
    \/ AggregateResolves
    \/ AggregateRejects

Spec == Init /\ [][Next]_vars

----------------------------------------------------------------------------
(* createDateFilter on its own: every pair of date strings, both modes,    *)
(* and a document created at a probe instant.                              *)

DateStrings == {Undefined, Str(<<>>), Str(Jan15), Str(Jan20), Str(NotADate)}

ProbeDays == {0, 14, 15, 19, 20}
ProbeTimes == {d * DayMs + e : d \in ProbeDays, e \in {-1, 0, 1}}

InitDate ==
    /\ pc = "date"
    /\ options \in [startDate : DateStrings, endDate : DateStrings,
                    searchBetweenDates : BOOLEAN]
    /\ \E t \in ProbeTimes : collection = << Task(1, Report, FALSE, High, t) >>
    /\ dateFilter = NoValue
    /\ fieldCondition = NoValue
    /\ skip = NoValue
    /\ combinedFilter = NoValue
    /\ aggregationPipeline = NoValue
    /\ aggregateCalls = 0
    /\ received = NoValue
    /\ outcome = NoValue

\* Line 193: the call of createDateFilter.
BuildDateFilter ==
    /\ pc = "date"
    /\ dateFilter' = createDateFilter(options.startDate, options.endDate,
                                      options.searchBetweenDates)
    /\ pc' = "dated"
    /\ UNCHANGED <<options, fieldCondition, skip, combinedFilter, aggregationPipeline,
                   aggregateCalls, received, outcome, collection>>

NextDate == BuildDateFilter

SpecDate == InitDate /\ [][NextDate]_vars

----------------------------------------------------------------------------
(* The field-condition builders on their own: every mapping of the filter  *)
(* keys to a short string, a literal or undefined, in both modes.          *)

ValueAlphabet == {"1", "a", "A", " ", "-"}
FilterKeys == {"title", "completed"}

FilterValues ==
    {Undefined}
    \cup {Str(cs) : cs \in Chars(MaxValueLen, ValueAlphabet)
                          \cup {TrueLiteral, FalseLiteral, MeetingLower}}

FilterMappings ==
    {Undefined} \cup {Obj(f) : f \in UNION {[K -> FilterValues] : K \in SUBSET FilterKeys}}

InitFilters ==
    /\ pc = "filters"
    /\ options \in [filters : FilterMappings, globalSearch : BOOLEAN]
    /\ collection = SampleTasks
    /\ dateFilter = NoValue
    /\ fieldCondition = NoValue
    /\ skip = NoValue
    /\ combinedFilter = NoValue
    /\ aggregationPipeline = NoValue
    /\ aggregateCalls = 0
    /\ received = NoValue
    /\ outcome = NoValue

\* Lines 194-196: the ternary that picks the builder.
BuildFieldCondition ==
    /\ pc = "filters"
    /\ fieldCondition' = FieldCondition(options.filters, options.globalSearch)
    /\ pc' = "filtered"
    /\ UNCHANGED <<options, dateFilter, skip, combinedFilter, aggregationPipeline,
                   aggregateCalls, received, outcome, collection>>

NextFilters == BuildFieldCondition

SpecFilters == InitFilters /\ [][NextFilters]_vars

----------------------------------------------------------------------------
(* Properties.                                                             *)

Started == pc \in {"awaiting", "done", "failed"}

\* A positive integer (the numbers of the model are integers or NaN).
PositiveInteger(v) == IsNum(v) /\ Val(v) >= 1

Result == outcome[2]
Metadata == Result.metadata

MatchingComposedFilter ==
    {i \in 1..Len(collection) : Matches(collection[i], combinedFilter)}

\* C1: a call whose page is not a positive integer fails with
\* ErrorInvalidPage, and no aggregate request has been issued for it.
C1_InvalidPageFailsBeforeStorage ==
    (Started /\ ~PositiveInteger(options.page)) =>
        /\ aggregateCalls = 0
        /\ pc = "failed"
        /\ outcome = <<"rejected", "ErrorInvalidPage">>

\* C2: a call whose max is not a positive integer fails with
\* ErrorInvalidMax, and no aggregate request has been issued for it.
C2_InvalidMaxFailsBeforeStorage ==
    (Started /\ ~PositiveInteger(options.max)) =>
        /\ aggregateCalls = 0
        /\ pc = "failed"
        /\ outcome = <<"rejected", "ErrorInvalidMax">>

\* C3: the filter of the match stage is the conjunction of the base filter,
\* the date-range condition and the field condition: a document that passes
\* it satisfies all three, also when two of them constrain the same key.
C3_MatchFilterIsConjunction ==
    Started =>
        \A i \in MatchingComposedFilter :
            /\ Matches(collection[i], options.filter)
            /\ Matches(collection[i], dateFilter)
            /\ Matches(collection[i], fieldCondition)

\* The instant a well-formed date string of the model names.
InstantOf(str) ==
    CASE str = Str(Jan15) -> 14 * DayMs
      [] str = Str(Jan20) -> 19 * DayMs

WellFormedDate(str) == str \in {Str(Jan15), Str(Jan20)}

InclusiveWithBothDates ==
    /\ pc = "dated"
    /\ ~options.searchBetweenDates
    /\ WellFormedDate(options.startDate)
    /\ WellFormedDate(options.endDate)

ProbeTime == Val(collection[1].createdAt)

C5_TotalPagesIsCeiling ==
    pc = "done" =>
        /\ DOMAIN Result = {"metadata", "data"}
        /\ DOMAIN Metadata = {"total", "page", "max", "next", "previous", "totalPages"}
        /\ IsNum(Metadata.total) /\ IsNum(Metadata.max) /\ IsNum(Metadata.totalPages)
        /\ Metadata.max = options.max
        /\ Val(Metadata.totalPages) * Val(Metadata.max) >= Val(Metadata.total)
        /\ (Val(Metadata.totalPages) - 1) * Val(Metadata.max) < Val(Metadata.total)
        /\ (Val(Metadata.totalPages) = 0 <=> Val(Metadata.total) = 0)
        /\ (MatchingComposedFilter = {} =>
                /\ Metadata.total = Num(0)
                /\ Metadata.totalPages = Num(0)
                /\ Result.data = <<>>)

\* Three matching documents in pages of two: two pages.
C5_Witness ==
    /\ pc = "done"
    /\ Metadata.total = Num(3)
    /\ Metadata.max = Num(2)
    /\ Metadata.totalPages = Num(2)

\* C6: a returned result has next = (total > skip + max) and
\* previous = (page > 1), skip being (page - 1) * max, whatever total is.
C6_NextAndPrevious ==
    pc = "done" =>
        /\ IsNum(options.page) /\ IsNum(options.max) /\ IsNum(Metadata.total)
        /\ skip = Num((Val(options.page) - 1) * Val(options.max))
        /\ Metadata.next =
              (Val(Metadata.total) > Val(skip) + Val(options.max))
        /\ Metadata.previous = (Val(options.page) > 1)

\* A page past the last one: nothing is left to show, previous is still true.
C6_Witness ==
    /\ pc = "done"
    /\ Val(Metadata.total) > 0
    /\ Val(skip) >= Val(Metadata.total)
    /\ Metadata.previous
    /\ ~Metadata.next

\* The documents that reach the facet stage: those matching the composed
\* filter, passed through the caller's extra stages.
FacetInput ==
    RunStages(options.pipeline,
              RunStage(<<"$match", combinedFilter>>, collection))

\* C7 (as amended): total is the number of documents that reach the facet
\* stage, that is, of the documents matching the composed filter after the
\* caller's extra stages were applied to them; page, max, the sort flag and
\* the projection do not enter it, and skip and limit do not reduce it.
C7_TotalCountsFacetInput ==
    pc = "done" => Metadata.total = Num(Len(FacetInput))

\* C7 (as claimed): total is the number of documents of the collection that
\* match the composed filter, whatever the extra pipeline stages are.
C7_TotalCountsComposedFilter ==
    pc = "done" => Metadata.total = Num(Cardinality(MatchingComposedFilter))

\* The second page of one record each, an extra stage having dropped some
\* of the matching documents: total counts what the extra stage left.
C7_Witness ==
    /\ pc = "done"
    /\ options.pipeline # <<>>
    /\ options.page = Num(2)
    /\ Val(Metadata.total) > Val(options.max)
    /\ Val(Metadata.total) < Cardinality(MatchingComposedFilter)

\* An optionally signed run of decimal digits, white space around it allowed.
IsNumeral(cs) ==
    LET t == Trim(cs) IN
    \/ IsDigits(t)
    \/ t # <<>> /\ Head(t) \in {"-", "+"} /\ IsDigits(Tail(t))

\* The condition the rules of the claim give a value.
ConditionByRule(cs, cond) ==
    IF cs \in {TrueLiteral, FalseLiteral}
    THEN cond = Eq(Bool(cs = TrueLiteral))
    ELSE IF IsNumeral(cs)
    THEN Tag(cond) = "eq" /\ Tag(Val(cond)) = "num"
    ELSE cond = Regex(cs, "i")

\* C8: processFilters gives each defined entry exactly one condition, by the
\* first rule that applies: a boolean literal gives a boolean equality, a
\* numeral a numeric equality, any other value a case-insensitive pattern.
C8_OneConditionByFirstRule ==
    (pc = "filtered" /\ ~options.globalSearch /\ Tag(options.filters) = "obj") =>
        LET f == Val(options.filters) IN
        /\ DOMAIN fieldCondition = {k \in DOMAIN f : Tag(f[k]) = "str"}
        /\ \A k \in DOMAIN fieldCondition : ConditionByRule(Val(f[k]), fieldCondition[k])

\* The entries global search takes: those whose value is a non-empty string.
NonEmptyStringEntries(f) == {k \in DOMAIN f : Tag(f[k]) = "str" /\ Len(Val(f[k])) > 0}

\* C9: with globalSearch the field condition is one $or of a case-insensitive
\* pattern per non-empty string entry and nothing else, the empty condition
\* when there is no such entry; without it the field condition is the
\* processFilters result and holds no $or.
C9_ModesAreExclusive ==
    pc = "filtered" =>
        IF Tag(options.filters) = "undefined" THEN fieldCondition = EmptyObject
        ELSE LET f == Val(options.filters) IN
             IF options.globalSearch
             THEN IF NonEmptyStringEntries(f) = {}
                  THEN fieldCondition = EmptyObject
                  ELSE /\ DOMAIN fieldCondition = {"$or"}
                       /\ fieldCondition["$or"] =
                             Or({<<k, Regex(Val(f[k]), "i")>> : k \in NonEmptyStringEntries(f)})
             ELSE /\ fieldCondition = processFilters(options.filters)
                  /\ "$or" \notin DOMAIN fieldCondition
                  /\ \A k \in DOMAIN fieldCondition : Tag(fieldCondition[k]) \in {"eq", "regex"}

\* Global search over a boolean literal and a word: two patterns, no equality.
C9_Witness ==
    /\ pc = "filtered"
    /\ options.globalSearch
    /\ Tag(options.filters) = "obj"
    /\ DOMAIN Val(options.filters) = {"title", "completed"}
    /\ Val(options.filters)["completed"] = Str(TrueLiteral)
    /\ Val(options.filters)["title"] = Str(MeetingLower)
    /\ DOMAIN fieldCondition = {"$or"}

\* C10: the storage engine is read at most once and never written; a call
\* that returned has issued exactly one aggregate request, for the pipeline
\* built in full; a call whose request failed ends with the storage error,
\* without a retry and without a result.
C10_OneReadNoRetry ==
    /\ aggregateCalls <= 1
    /\ collection = SampleTasks
    /\ Started =>
          /\ aggregateCalls = 1
          /\ received = aggregationPipeline
          /\ Len(received) = Len(options.pipeline) + 3
          /\ received[1] = <<"$match", combinedFilter>>
          /\ Tag(received[Len(received) - 1]) = "$facet"
          /\ Tag(received[Len(received)]) = "$unwind"
    /\ pc = "done" => Tag(outcome) = "fulfilled"
    /\ pc = "failed" => outcome = <<"rejected", "MongoServerError">>

\* A request the engine refused (a negative $skip): one read, the error.
C10_Witness ==
    /\ pc = "failed"
    /\ aggregateCalls = 1
    /\ ~PipelineValid(received)
    /\ outcome = <<"rejected", "MongoServerError">>

====
